---- MODULE Spec2Model ----
(***************************************************************************)
(* A model of the benchmark report generator bench/generate_report.py:     *)
(* load_csv, aggregate, find_fastest, generate_markdown and main; of the   *)
(* benchmark runner bench/python_bench.py; and of the stdio JSON-RPC test  *)
(* server lumen-provider-mcp/tests/test_mcp_server.py.                     *)
(*                                                                         *)
(* Representation.                                                         *)
(*  - A Python float is a fixed-point integer counting hundredths: the     *)
(*    timing 1.5 ms is 150.  Every timing string of the model is a whole   *)
(*    number of milliseconds, so sums, medians of two samples and the      *)
(*    two-decimal roundings of mean and stdev are exact in this unit.      *)
(*  - A quotient of two medians is an exact fraction [n |-> _, d |-> _]    *)
(*    in lowest terms with d > 0.                                          *)
(*  - A Python dict is the sequence of its <<key, value>> items in         *)
(*    insertion order, which is the order Python iterates it in.           *)
(*  - A call returns an outcome [exc |-> "none", val |-> v], or            *)
(*    [exc |-> <exception name>, val |-> <<>>] when it raises.             *)
(***************************************************************************)
EXTENDS Integers, Sequences, FiniteSets, TLC

VARIABLES
    store,      \* the Result Store: the CSV's data records, in file order
    args,       \* main: the parsed command line [json, output]
    pc,         \* position of the running call
    rows,       \* load_csv's result / aggregate's argument
    data,       \* aggregate's result { benchmark: { language: stats } }
    raised,     \* the exception the last call raised, "none" when it returned
    output,     \* main: the rendered document
    stdout,     \* main: what was printed on standard output
    stderr,     \* main: what was printed on standard error
    outfile,    \* main: what was written to the --output file
    exit_code,  \* main: the process's exit status, -1 while it runs
    bench_data, \* find_fastest's argument { language: stats }
    fastest,    \* find_fastest's result
    computed,   \* python_bench: what each benchmark of the catalog computes
    results,    \* python_bench main: results, the (name, elapsed) pairs
    total,      \* python_bench main: total of the summary
    stdin,      \* the MCP test server: the lines of its standard input
    nread       \* the MCP test server: how many lines it has taken

vars == <<store, args, pc, rows, data, raised, output, stdout, stderr,
          outfile, exit_code, bench_data, fastest, computed, results, total,
          stdin, nread>>

\* The state of python_bench.py and of the MCP test server
other_vars == <<computed, results, total, stdin, nread>>

\* That state while neither of them runs
OthersIdle ==
    /\ computed = <<>>
    /\ results = <<>>
    /\ total = 0
    /\ stdin = <<>>
    /\ nread = 0

----------------------------------------------------------------------------
(* Bounds of the model *)

\* Longest Result Store main is run on.
MaxStoreRows == 2

\* Longest row sequence aggregate is applied to directly.
MaxRows == 3

\* How many entries of BENCHMARKS the python_bench runner is run with.
CatalogLen == 4

\* Longest input the MCP test server is run on, in lines.
MaxLines == 2

----------------------------------------------------------------------------
(* Names and their order *)

Benchmarks == {"fib", "sort"}
Languages == {"c", "lumen", "python"}

\* The code points of the names, which Python's str comparison works on.
CodePoints ==
    [ c      |-> <<99>>,
      fib    |-> <<102, 105, 98>>,
      lumen  |-> <<108, 117, 109, 101, 110>>,
      python |-> <<112, 121, 116, 104, 111, 110>>,
      sort   |-> <<115, 111, 114, 116>> ]

RECURSIVE LexLess(_, _)
LexLess(a, b) ==
    IF b = <<>> THEN FALSE
    ELSE IF a = <<>> THEN TRUE
    ELSE IF Head(a) # Head(b) THEN Head(a) < Head(b)
    ELSE LexLess(Tail(a), Tail(b))

\* s < t for Python strings
StrLess(s, t) == LexLess(CodePoints[s], CodePoints[t])

----------------------------------------------------------------------------
(* Sequences and dicts *)

RECURSIVE SumSeq(_)
SumSeq(s) == IF s = <<>> THEN 0 ELSE Head(s) + SumSeq(Tail(s))

Range(s) == { s[i] : i \in DOMAIN s }

Keys(d) == [ i \in DOMAIN d |-> d[i][1] ]
KeySet(d) == { d[i][1] : i \in DOMAIN d }
Has(d, k) == k \in KeySet(d)
Get(d, k) == d[CHOOSE i \in DOMAIN d : d[i][1] = k][2]

\* d[k].append(x) on a defaultdict(list): a new key goes last.
AppendTo(d, k, x) ==
    IF Has(d, k)
    THEN [ i \in DOMAIN d |->
             IF d[i][1] = k THEN <<k, Append(d[i][2], x)>> ELSE d[i] ]
    ELSE Append(d, <<k, <<x>>>>)

\* d.items() as they are, not sorted
UnsortedItems(d) == d

\* sorted(d.items()): the items by key (keys are distinct, so the values
\* are never compared).
ItemLess(p, q) == StrLess(p[1], q[1])

\* The sorted items t with the item x inserted after those not greater
InsertItem(x, t) ==
    LET k == Cardinality({ i \in DOMAIN t : ~ItemLess(x, t[i]) })
    IN  SubSeq(t, 1, k) \o <<x>> \o SubSeq(t, k + 1, Len(t))

SortedItems(d) ==
    LET srt[n \in 0..Len(d)] ==
            IF n = 0 THEN <<>> ELSE InsertItem(d[n], srt[n - 1])
    IN  srt[Len(d)]

----------------------------------------------------------------------------
(* Outcomes of calls *)

Returned(v) == [exc |-> "none", val |-> v]
Raised(e) == [exc |-> e, val |-> <<>>]

----------------------------------------------------------------------------
(* load_csv *)

\* csv.DictReader gives a record that is short of a field the value None.
NoneValue == "<None>"

\* The decimal strings of the model and the floats they denote.
FloatTable ==
    [ s \in {"-1", "0", "1", "1.0", "2", "3", "4"} |->
        CASE s = "-1"  -> -100
          [] s = "0"   -> 0
          [] s = "1"   -> 100
          [] s = "1.0" -> 100
          [] s = "2"   -> 200
          [] s = "3"   -> 300
          [] s = "4"   -> 400 ]

\* float(s): TypeError for None, ValueError for a string that is no number.
float(s) ==
    IF s = NoneValue THEN Raised("TypeError")
    ELSE IF s \in DOMAIN FloatTable THEN Returned(FloatTable[s])
    ELSE Raised("ValueError")

\* The loop of load_csv from record i on, acc the rows kept so far.  An
\* exception of float() leaves the loop and the function.
RECURSIVE LoadLoop(_, _, _)
LoadLoop(recs, i, acc) ==
    IF i > Len(recs) THEN Returned(acc)
    ELSE IF recs[i].time_ms # "ERROR"
    THEN LET f == float(recs[i].time_ms)
         IN  IF f.exc # "none" THEN Raised(f.exc)
             ELSE LoadLoop(recs, i + 1,
                           Append(acc, [recs[i] EXCEPT !.time_ms = f.val]))
    ELSE LoadLoop(recs, i + 1, acc)

\* load_csv with an ERROR record kept as a timing of 0.0 instead of skipped
load_csv_error_as_zero(recs) ==
    LoadLoop([ i \in DOMAIN recs |->
                 IF recs[i].time_ms = "ERROR"
                 THEN [recs[i] EXCEPT !.time_ms = "0"] ELSE recs[i] ],
             1, <<>>)

load_csv(recs) == LoadLoop(recs, 1, <<>>)

----------------------------------------------------------------------------
(* statistics *)

\* The sorted numbers t with x inserted after those not greater
InsertNum(x, t) ==
    LET k == Cardinality({ i \in DOMAIN t : ~(x < t[i]) })
    IN  SubSeq(t, 1, k) \o <<x>> \o SubSeq(t, k + 1, Len(t))

\* sorted(times)
SortedNums(times) ==
    LET srt[n \in 0..Len(times)] ==
            IF n = 0 THEN <<>> ELSE InsertNum(times[n], srt[n - 1])
    IN  srt[Len(times)]

\* median taken at the middle position of the samples as they came
median_unsorted(times) ==
    LET n == Len(times)
    IN  IF n % 2 = 1 THEN times[(n + 1) \div 2]
        ELSE (times[n \div 2] + times[n \div 2 + 1]) \div 2

\* statistics.median: the middle of the sorted samples, the average of the
\* two middle ones for an even count.
median(times) ==
    LET s == SortedNums(times)
        n == Len(s)
    IN  IF n % 2 = 1 THEN s[(n + 1) \div 2]
        ELSE (s[n \div 2] + s[n \div 2 + 1]) \div 2

\* a / b rounded to the nearest integer, a tie to the even one (b > 0):
\* round(x, 2) of a float in hundredths.
RoundDiv(a, b) ==
    LET q == a \div b
        r == a - q * b
    IN  IF 2 * r < b THEN q
        ELSE IF 2 * r > b THEN q + 1
        ELSE IF q % 2 = 0 THEN q ELSE q + 1

\* round(statistics.mean(times), 2)
mean(times) == RoundDiv(SumSeq(times), Len(times))

\* the largest k with k * k <= n
RECURSIVE ISqrt(_)
ISqrt(n) ==
    IF n < 2 THEN n
    ELSE LET s == 2 * ISqrt(n \div 4)
         IN  IF (s + 1) * (s + 1) <= n THEN s + 1 ELSE s

\* round(statistics.stdev(times), 2): the square root of the sample
\* variance (divisor n - 1), to the nearest hundredth.  With whole
\* milliseconds the root is never half way between two hundredths.
stdev(times) ==
    LET n == Len(times)
        sq == [ i \in DOMAIN times |-> times[i] * times[i] ]
        v == n * SumSeq(sq) - SumSeq(times) * SumSeq(times)
    IN  (ISqrt((4 * v) \div (n * (n - 1))) + 1) \div 2

RECURSIVE MinOf(_)
MinOf(s) ==
    IF Len(s) = 1 THEN s[1]
    ELSE LET m == MinOf(Tail(s)) IN IF m < Head(s) THEN m ELSE Head(s)

RECURSIVE MaxOf(_)
MaxOf(s) ==
    IF Len(s) = 1 THEN s[1]
    ELSE LET m == MaxOf(Tail(s)) IN IF m > Head(s) THEN m ELSE Head(s)

\* The LanguageStats record aggregate builds for one group's samples.
LanguageStats(times) ==
    [ median |-> median(times),
      mean   |-> mean(times),
      min    |-> MinOf(times),
      max    |-> MaxOf(times),
      stdev  |-> IF Len(times) > 1 THEN stdev(times) ELSE 0,
      runs   |-> Len(times) ]

----------------------------------------------------------------------------
(* aggregate *)

\* grouped[row["benchmark"]][row["language"]].append(row["time_ms"])
GroupRow(grouped, row) ==
    IF Has(grouped, row.benchmark)
    THEN [ i \in DOMAIN grouped |->
             IF grouped[i][1] = row.benchmark
             THEN <<row.benchmark,
                    AppendTo(grouped[i][2], row.language, row.time_ms)>>
             ELSE grouped[i] ]
    ELSE Append(grouped,
                <<row.benchmark, <<<<row.language, <<row.time_ms>>>>>>>>)

RECURSIVE Grouped(_)
Grouped(rs) ==
    IF rs = <<>> THEN <<>>
    ELSE GroupRow(Grouped(SubSeq(rs, 1, Len(rs) - 1)), rs[Len(rs)])

\* result[bench] for one benchmark: its languages in sorted order
BenchResult(langs) ==
    LET items == SortedItems(langs)
    IN  [ i \in DOMAIN items |-> <<items[i][1], LanguageStats(items[i][2])>> ]

\* aggregate that refuses an empty row sequence
aggregate_refusing_empty(rs) ==
    IF rs = <<>> THEN Raised("EmptyInputError")
    ELSE LET items == SortedItems(Grouped(rs))
         IN  Returned([ i \in DOMAIN items |->
                          <<items[i][1], BenchResult(items[i][2])>> ])

\* aggregate(rows); nothing in it raises
aggregate(rs) ==
    LET items == SortedItems(Grouped(rs))
    IN  Returned([ i \in DOMAIN items |->
                     <<items[i][1], BenchResult(items[i][2])>> ])

----------------------------------------------------------------------------
(* find_fastest *)

\* min(bench_data, key=...) over the items from position i on, best the
\* position kept so far: a later item replaces it only when strictly less.
RECURSIVE MinScan(_, _, _)
MinScan(bd, i, best) ==
    IF i > Len(bd) THEN best
    ELSE IF bd[i][2].median < bd[best][2].median THEN MinScan(bd, i + 1, i)
    ELSE MinScan(bd, i + 1, best)

\* find_fastest keeping the last of the items with the lowest median
RECURSIVE MinScanLast(_, _, _)
MinScanLast(bd, i, best) ==
    IF i > Len(bd) THEN best
    ELSE IF bd[i][2].median <= bd[best][2].median
    THEN MinScanLast(bd, i + 1, i)
    ELSE MinScanLast(bd, i + 1, best)

find_fastest_last(bd) == bd[MinScanLast(bd, 2, 1)][1]

\* find_fastest(bench_data), bench_data not empty
find_fastest(bd) == bd[MinScan(bd, 2, 1)][1]

----------------------------------------------------------------------------
(* Fractions: the quotients of floats *)

RECURSIVE GCD(_, _)
GCD(a, b) == IF b = 0 THEN a ELSE GCD(b, a % b)

Abs(a) == IF a < 0 THEN -a ELSE a

\* a / b for b > 0, in lowest terms
Quot(a, b) ==
    LET g == GCD(Abs(a), b)
    IN  [n |-> a \div g, d |-> b \div g]

RatAdd(x, y) == Quot(x.n * y.d + y.n * x.d, x.d * y.d)

RECURSIVE RatSum(_)
RatSum(s) == IF s = <<>> THEN Quot(0, 1) ELSE RatAdd(Head(s), RatSum(Tail(s)))

\* statistics.mean of a non-empty sequence of quotients
RatMean(s) == LET t == RatSum(s) IN Quot(t.n, t.d * Len(s))

----------------------------------------------------------------------------
(* generate_markdown *)

BASELINE == "c"
SUBJECT == "lumen"

\* sorted(S) for a set of names
RECURSIVE SortedNames(_)
SortedNames(S) ==
    IF S = {} THEN <<>>
    ELSE LET m == CHOOSE x \in S : \A y \in S \ {x} : StrLess(x, y)
         IN  <<m>> \o SortedNames(S \ {m})

\* A cell of a table: what is formatted (val), how (kind: "median" is
\* {val:.0f}, "ratio" is {val:.1f}x, "ms" is {val:.0f}ms, "dash" is -) and
\* whether it is set in bold.  The digits a format produces are not modelled.
Cell(kind, val, bold) == [kind |-> kind, val |-> val, bold |-> bold]
Dash == Cell("dash", 0, FALSE)

\* sorted({lang for bench in data.values() for lang in bench})
AllLangs(d) == SortedNames(UNION { KeySet(d[i][2]) : i \in DOMAIN d })

\* One row of the summary table
SummaryRow(bench, langs, all_langs) ==
    LET fst == find_fastest(langs)
    IN  [ bench   |-> bench,
          cells   |-> [ i \in DOMAIN all_langs |->
                          IF Has(langs, all_langs[i])
                          THEN Cell("median", Get(langs, all_langs[i]).median,
                                    all_langs[i] = fst)
                          ELSE Dash ],
          fastest |-> fst ]

\* The relative-performance row without the test of c_median's sign: a ratio
\* whenever the group has "c"
RelativeRowUnguarded(bench, langs, all_langs) ==
    LET has_c == Has(langs, BASELINE)
        c_median == IF has_c THEN Get(langs, BASELINE).median ELSE 0
    IN  [ bench |-> bench,
          cells |-> [ i \in DOMAIN all_langs |->
                        IF Has(langs, all_langs[i]) /\ has_c
                        THEN Cell("ratio",
                                  [n |-> Get(langs, all_langs[i]).median,
                                   d |-> c_median],
                                  FALSE)
                        ELSE IF Has(langs, all_langs[i])
                        THEN Cell("ms", Get(langs, all_langs[i]).median, FALSE)
                        ELSE Dash ] ]

\* One row of the relative-performance table.  c_median is None when the
\* group has no "c"; None and 0.0 are both falsy.
RelativeRow(bench, langs, all_langs) ==
    LET has_c == Has(langs, BASELINE)
        c_median == IF has_c THEN Get(langs, BASELINE).median ELSE 0
    IN  [ bench |-> bench,
          cells |-> [ i \in DOMAIN all_langs |->
                        IF Has(langs, all_langs[i]) /\ has_c /\ c_median # 0
                           /\ c_median > 0
                        THEN Cell("ratio",
                                  Quot(Get(langs, all_langs[i]).median, c_median),
                                  FALSE)
                        ELSE IF Has(langs, all_langs[i])
                        THEN Cell("ms", Get(langs, all_langs[i]).median, FALSE)
                        ELSE Dash ] ]

\* One benchmark's detailed table: a line per language, sorted(langs)
DetailedTable(bench, langs) ==
    LET names == SortedNames(KeySet(langs))
    IN  [ bench |-> bench,
          lines |-> [ i \in DOMAIN names |->
                        [lang |-> names[i], stats |-> Get(langs, names[i])] ] ]

MedianLess(p, q) == p[2].median < q[2].median

\* The insertion of a sort that is not stable: x goes before the items of
\* the same median
InsertBeforeEqual(x, t) ==
    LET k == Cardinality({ i \in DOMAIN t : MedianLess(t[i], x) })
    IN  SubSeq(t, 1, k) \o <<x>> \o SubSeq(t, k + 1, Len(t))

\* The items t, sorted by median, with x inserted after those whose median
\* is not greater: items of equal median keep the order they came in.
InsertByMedian(x, t) ==
    LET k == Cardinality({ i \in DOMAIN t : ~MedianLess(x, t[i]) })
    IN  SubSeq(t, 1, k) \o <<x>> \o SubSeq(t, k + 1, Len(t))

\* sorted(langs.items(), key=lambda x: x[1]["median"]): a stable sort
SortedByMedian(langs) ==
    LET srt[n \in 0..Len(langs)] ==
            IF n = 0 THEN <<>> ELSE InsertByMedian(langs[n], srt[n - 1])
    IN  srt[Len(langs)]

\* The lumen_ranks entry with the rank counted from 0
LumenRankFromZero(bench, langs) ==
    LET sorted_langs == SortedByMedian(langs)
        rank == CHOOSE i \in DOMAIN sorted_langs :
                    sorted_langs[i][1] = SUBJECT
        lumen_median == Get(langs, SUBJECT).median
        fastest_data == sorted_langs[1][2]
    IN  [ bench   |-> bench,
          rank    |-> rank - 1,
          total   |-> Len(sorted_langs),
          ratio   |-> IF fastest_data.median > 0
                      THEN Quot(lumen_median, fastest_data.median)
                      ELSE Quot(0, 1),
          fastest |-> sorted_langs[1][1] ]

\* The lumen_ranks entry with the group's first language taken for the
\* fastest (the items not sorted by median)
LumenRankUnsorted(bench, langs) ==
    LET sorted_langs == langs
        rank == CHOOSE i \in DOMAIN sorted_langs :
                    sorted_langs[i][1] = SUBJECT
        lumen_median == Get(langs, SUBJECT).median
        fastest_data == sorted_langs[1][2]
    IN  [ bench   |-> bench,
          rank    |-> rank,
          total   |-> Len(sorted_langs),
          ratio   |-> IF fastest_data.median > 0
                      THEN Quot(lumen_median, fastest_data.median)
                      ELSE Quot(0, 1),
          fastest |-> sorted_langs[1][1] ]

\* The tuple appended to lumen_ranks for a benchmark that has "lumen"
LumenRank(bench, langs) ==
    LET sorted_langs == SortedByMedian(langs)
        rank == CHOOSE i \in DOMAIN sorted_langs :
                    /\ sorted_langs[i][1] = SUBJECT
                    /\ \A j \in 1..(i - 1) : sorted_langs[j][1] # SUBJECT
        lumen_median == Get(langs, SUBJECT).median
        fastest_data == sorted_langs[1][2]
    IN  [ bench   |-> bench,
          rank    |-> rank,
          total   |-> Len(sorted_langs),
          ratio   |-> IF fastest_data.median > 0
                      THEN Quot(lumen_median, fastest_data.median)
                      ELSE Quot(0, 1),
          fastest |-> sorted_langs[1][1] ]

HasSubject(item) == Has(item[2], SUBJECT)

\* lumen_ranks after its loop
LumenRanks(d) ==
    LET items == SelectSeq(SortedItems(d), HasSubject)
    IN  [ i \in DOMAIN items |-> LumenRank(items[i][1], items[i][2]) ]

\* generate_markdown that writes the average line whatever lumen_ranks
\* holds, 0.0x for no entry
generate_markdown_always_average(d) ==
    LET all_langs == AllLangs(d)
        items == SortedItems(d)
        lumen_ranks == LumenRanks(d)
    IN  [ all_langs |-> all_langs,
          summary   |-> [ i \in DOMAIN items |->
                            SummaryRow(items[i][1], items[i][2], all_langs) ],
          relative  |-> [ i \in DOMAIN items |->
                            RelativeRow(items[i][1], items[i][2], all_langs) ],
          detailed  |-> [ i \in DOMAIN items |->
                            DetailedTable(items[i][1], items[i][2]) ],
          lumen     |-> lumen_ranks,
          average   |-> IF lumen_ranks # <<>>
                        THEN <<RatMean([ i \in DOMAIN lumen_ranks |->
                                           lumen_ranks[i].ratio ])>>
                        ELSE <<Quot(0, 1)>> ]

\* generate_markdown(data, csv_path): the sections of the report in the
\* order they are written.  "lumen" is the table of the Lumen analysis and
\* "average" the average slowdown under it (<<>> when it is not written).
generate_markdown(d) ==
    LET all_langs == AllLangs(d)
        items == SortedItems(d)
        lumen_ranks == LumenRanks(d)
    IN  [ all_langs |-> all_langs,
          summary   |-> [ i \in DOMAIN items |->
                            SummaryRow(items[i][1], items[i][2], all_langs) ],
          relative  |-> [ i \in DOMAIN items |->
                            RelativeRow(items[i][1], items[i][2], all_langs) ],
          detailed  |-> [ i \in DOMAIN items |->
                            DetailedTable(items[i][1], items[i][2]) ],
          lumen     |-> lumen_ranks,
          average   |-> IF lumen_ranks # <<>>
                        THEN <<RatMean([ i \in DOMAIN lumen_ranks |->
                                           lumen_ranks[i].ratio ])>>
                        ELSE <<>> ]

----------------------------------------------------------------------------
(* json.dumps *)

RECURSIVE Flatten(_)
Flatten(ss) == IF ss = <<>> THEN <<>> ELSE Head(ss) \o Flatten(Tail(ss))

StatsTokens(st) ==
    << "median", ToString(st.median), "mean", ToString(st.mean),
       "min", ToString(st.min), "max", ToString(st.max),
       "stdev", ToString(st.stdev), "runs", ToString(st.runs) >>

LangsTokens(langs) ==
    Flatten([ i \in DOMAIN langs |->
                <<langs[i][1], "{">> \o StatsTokens(langs[i][2]) \o <<"}">> ])

\* json.dumps(data, indent=2): the keys and values of the document in the
\* order of the dicts, as a sequence of tokens (a number is written in
\* hundredths).
json_dumps(d) ==
    <<"{">> \o Flatten([ i \in DOMAIN d |->
                <<d[i][1], "{">> \o LangsTokens(d[i][2]) \o <<"}">> ]) \o <<"}">>

----------------------------------------------------------------------------
(* main: the report command, run on a Result Store *)

\* The time_ms fields of the stores main is run on: the ERROR marker,
\* decimal numbers, a string that is no number and a missing field.
StoreFields == {"ERROR", "1", "1.0", "3", "abc", NoneValue}

CsvRecords ==
    [benchmark : Benchmarks, language : {"c", "lumen"}, time_ms : StoreFields]

Stores == UNION { [1..n -> CsvRecords] : n \in 0..MaxStoreRows }

NoOutput == [kind |-> "none", body |-> <<>>]

Idle ==
    /\ rows = <<>>
    /\ data = <<>>
    /\ raised = "none"
    /\ output = NoOutput
    /\ stdout = <<>>
    /\ stderr = <<>>
    /\ outfile = <<>>
    /\ exit_code = -1
    /\ bench_data = <<>>
    /\ fastest = ""

Init ==
    /\ store \in Stores
    /\ args \in [json : BOOLEAN, output : BOOLEAN]
    /\ pc = "main"
    /\ Idle
    /\ OthersIdle

\* rows = load_csv(args.csv_file); an exception leaves main: the
\* interpreter prints the traceback and exits with status 1.
MainLoad ==
    /\ pc = "main"
    /\ LET r == load_csv(store)
       IN  \/ /\ r.exc = "none"
              /\ rows' = r.val
              /\ pc' = "loaded"
              /\ UNCHANGED <<raised, stderr, exit_code>>
           \/ /\ r.exc # "none"
              /\ raised' = r.exc
              /\ stderr' = <<"Traceback", r.exc>>
              /\ exit_code' = 1
              /\ pc' = "exit"
              /\ UNCHANGED rows
    /\ UNCHANGED other_vars
    /\ UNCHANGED <<store, args, data, output, stdout, outfile, bench_data,
                   fastest>>

\* if not rows: print(..., file=sys.stderr); sys.exit(1)
MainCheck ==
    /\ pc = "loaded"
    /\ \/ /\ rows = <<>>
          /\ stderr' = <<"No valid results found in CSV.">>
          /\ exit_code' = 1
          /\ pc' = "exit"
       \/ /\ rows # <<>>
          /\ pc' = "checked"
          /\ UNCHANGED <<stderr, exit_code>>
    /\ UNCHANGED other_vars
    /\ UNCHANGED <<store, args, rows, data, raised, output, stdout, outfile,
                   bench_data, fastest>>

\* data = aggregate(rows)
MainAggregate ==
    /\ pc = "checked"
    /\ data' = aggregate(rows).val
    /\ pc' = "aggregated"
    /\ UNCHANGED other_vars
    /\ UNCHANGED <<store, args, rows, raised, output, stdout, stderr, outfile,
                   exit_code, bench_data, fastest>>

\* output = json.dumps(data, indent=2) or generate_markdown(data, ...)
MainRender ==
    /\ pc = "aggregated"
    /\ \/ /\ args.json
          /\ output' = [kind |-> "json", body |-> json_dumps(data)]
       \/ /\ ~args.json
          /\ output' = [kind |-> "markdown", body |-> generate_markdown(data)]
    /\ pc' = "rendered"
    /\ UNCHANGED other_vars
    /\ UNCHANGED <<store, args, rows, data, raised, stdout, stderr, outfile,
                   exit_code, bench_data, fastest>>

\* Path(args.output).write_text(output) or print(output); main returns
MainWrite ==
    /\ pc = "rendered"
    /\ \/ /\ args.output
          /\ outfile' = <<output>>
          /\ stderr' = <<"Report written to">>
          /\ UNCHANGED stdout
       \/ /\ ~args.output
          /\ stdout' = <<output>>
          /\ UNCHANGED <<outfile, stderr>>
    /\ exit_code' = 0
    /\ pc' = "exit"
    /\ UNCHANGED other_vars
    /\ UNCHANGED <<store, args, rows, data, raised, output, bench_data,
                   fastest>>

Next == MainLoad \/ MainCheck \/ MainAggregate \/ MainRender \/ MainWrite

Spec == Init /\ [][Next]_vars

----------------------------------------------------------------------------
(* aggregate, applied to row sequences *)

\* The timings of the rows aggregate is applied to.
SampleTimes == {100, 200, 300}

ValidRows ==
    [benchmark : Benchmarks, language : {"c", "lumen"}, time_ms : SampleTimes]

RowSeqs == UNION { [1..n -> ValidRows] : n \in 0..MaxRows }

InitAgg ==
    /\ OthersIdle
    /\ rows \in RowSeqs
    /\ store = <<>>
    /\ args = [json |-> TRUE, output |-> FALSE]
    /\ pc = "aggregate"
    /\ data = <<>>
    /\ raised = "none"
    /\ output = NoOutput
    /\ stdout = <<>>
    /\ stderr = <<>>
    /\ outfile = <<>>
    /\ exit_code = -1
    /\ bench_data = <<>>
    /\ fastest = ""

\* data = aggregate(rows); output = json.dumps(data, indent=2)
AggregateCall ==
    /\ pc = "aggregate"
    /\ LET r == aggregate(rows)
       IN  /\ raised' = r.exc
           /\ data' = r.val
           /\ output' = [kind |-> "json", body |-> json_dumps(r.val)]
    /\ pc' = "aggregated"
    /\ UNCHANGED other_vars
    /\ UNCHANGED <<store, args, rows, stdout, stderr, outfile, exit_code,
                   bench_data, fastest>>

Swap(s, i) ==
    [ j \in DOMAIN s |-> IF j = i THEN s[i + 1] ELSE IF j = i + 1 THEN s[i]
                         ELSE s[j] ]

\* The same rows in another order (two neighbours exchanged), aggregated
\* again.
AggregateReordered ==
    /\ pc = "aggregated"
    /\ \E i \in 1..(Len(rows) - 1) :
         /\ rows' = Swap(rows, i)
         /\ LET r == aggregate(rows')
            IN  /\ raised' = r.exc
                /\ data' = r.val
                /\ output' = [kind |-> "json", body |-> json_dumps(r.val)]
    /\ UNCHANGED other_vars
    /\ UNCHANGED <<store, args, pc, stdout, stderr, outfile, exit_code,
                   bench_data, fastest>>

NextAgg == AggregateCall \/ AggregateReordered

SpecAgg == InitAgg /\ [][NextAgg]_vars

----------------------------------------------------------------------------
(* find_fastest, applied to group mappings in any insertion order *)

\* The sequences of distinct languages: the orders a group can be built in.
LangOrders ==
    { s \in UNION { [1..n -> Languages] : n \in 1..Cardinality(Languages) } :
        \A i, j \in DOMAIN s : i # j => s[i] # s[j] }

\* Every group of one-sample languages, in every insertion order.
Groups ==
    UNION { { [ i \in DOMAIN s |-> <<s[i], LanguageStats(<<t[i]>>)>> ] :
              t \in [DOMAIN s -> SampleTimes] } : s \in LangOrders }

InitFastest ==
    /\ OthersIdle
    /\ bench_data \in Groups
    /\ fastest = ""
    /\ pc = "find_fastest"
    /\ store = <<>>
    /\ args = [json |-> FALSE, output |-> FALSE]
    /\ rows = <<>>
    /\ data = <<>>
    /\ raised = "none"
    /\ output = NoOutput
    /\ stdout = <<>>
    /\ stderr = <<>>
    /\ outfile = <<>>
    /\ exit_code = -1

\* fastest = find_fastest(bench_data)
FindFastestCall ==
    /\ pc = "find_fastest"
    /\ fastest' = find_fastest(bench_data)
    /\ pc' = "found"
    /\ UNCHANGED other_vars
    /\ UNCHANGED <<store, args, rows, data, raised, output, stdout, stderr,
                   outfile, exit_code, bench_data>>

NextFastest == FindFastestCall

SpecFastest == InitFastest /\ [][NextFastest]_vars

----------------------------------------------------------------------------
(* generate_markdown, applied to what main aggregates from a store *)

\* The time_ms fields of the stores a report is generated from.
ReportFields == {"-1", "0", "1", "2", "4"}

\* The (benchmark, language) keys in the order their records are stored.
KeyOrder ==
    << <<"sort", "python">>, <<"fib", "lumen">>, <<"sort", "c">>,
       <<"fib", "python">>, <<"sort", "lumen">>, <<"fib", "c">> >>

\* The store with one record for every key f gives a field, none for the
\* keys it gives "absent".
RecordsOf(f) ==
    LET Present(k) == f[k] # "absent"
        keys == SelectSeq(KeyOrder, Present)
    IN  [ i \in DOMAIN keys |->
            [benchmark |-> keys[i][1], language |-> keys[i][2],
             time_ms |-> f[keys[i]]] ]

ReportStores ==
    { RecordsOf(f) : f \in [Range(KeyOrder) -> ReportFields \cup {"absent"}] }
        \ {<<>>}

\* main has loaded and aggregated the store and is about to render it.
InitReport ==
    /\ OthersIdle
    /\ store \in ReportStores
    /\ args = [json |-> FALSE, output |-> FALSE]
    /\ rows = load_csv(store).val
    /\ data = aggregate(rows).val
    /\ pc = "generate_markdown"
    /\ raised = "none"
    /\ output = NoOutput
    /\ stdout = <<>>
    /\ stderr = <<>>
    /\ outfile = <<>>
    /\ exit_code = -1
    /\ bench_data = <<>>
    /\ fastest = ""

\* output = generate_markdown(data, args.csv_file)
GenerateMarkdownCall ==
    /\ pc = "generate_markdown"
    /\ output' = [kind |-> "markdown", body |-> generate_markdown(data)]
    /\ pc' = "generated"
    /\ UNCHANGED other_vars
    /\ UNCHANGED <<store, args, rows, data, raised, stdout, stderr, outfile,
                   exit_code, bench_data, fastest>>

NextReport == GenerateMarkdownCall

SpecReport == InitReport /\ [][NextReport]_vars

----------------------------------------------------------------------------
(* bench/python_bench.py: the benchmark functions and their runner *)

\* An integer beyond 32 bits is the pair <<n \div 10^6, n % 10^6>>.
\* elapsed is a whole number of 10^-5 seconds.

\* The names of BENCHMARKS, in the order of the list
BenchNames ==
    <<"int_fib", "int_sum_loop", "int_primes_sieve", "float_mandelbrot",
      "float_nbody", "string_concat", "string_build", "list_create_sum",
      "list_sort", "map_ops", "call_overhead", "recursion_ackermann">>

\* BENCHMARKS, cut to the first CatalogLen entries
BENCHMARKS == SubSeq(BenchNames, 1, CatalogLen)

\* The assert of each benchmark function, on the tuple of the values it
\* inspects: the number computed, <<x1, x2>> for float_nbody,
\* <<lst[0], lst[-1]>> for list_sort.
SelfCheck(name, result) ==
    CASE name = "int_fib" -> result = <<9227465>>
      [] name = "int_sum_loop" -> result = <<50000005, 0>>
      [] name = "int_primes_sieve" -> result = <<9592>>
      [] name = "float_mandelbrot" -> result[1] > 0
      [] name = "float_nbody" ->
            /\ Abs(result[1]) < 1000000
            /\ Abs(result[2]) < 1000000
      [] name = "string_concat" -> result = <<500000>>
      [] name = "string_build" -> result[1] > 0
      [] name = "list_create_sum" -> result = <<499999, 500000>>
      [] name = "list_sort" -> result[1] = 1 /\ result[2] = 100000
      [] name = "map_ops" -> result = <<4999, 950000>>
      [] name = "call_overhead" -> result = <<10000000>>
      [] name = "recursion_ackermann" -> result = <<2045>>

\* Values the timed computation of a benchmark is run with: the one the
\* code computes, and one its assert rejects.
ResultsOf(name) ==
    CASE name = "int_fib" -> {<<9227465>>, <<9227464>>}
      [] name = "int_sum_loop" -> {<<50000005, 0>>, <<50000004, 999999>>}
      [] name = "int_primes_sieve" -> {<<9592>>, <<9591>>}
      [] name = "float_mandelbrot" -> {<<3>>, <<0>>}
      [] name = "float_nbody" -> {<<5, -7>>, <<5, -1000000>>}
      [] name = "string_concat" -> {<<500000>>, <<499999>>}
      [] name = "string_build" -> {<<3>>, <<0>>}
      [] name = "list_create_sum" -> {<<499999, 500000>>, <<499999, 500001>>}
      [] name = "list_sort" -> {<<1, 100000>>, <<1, 99999>>}
      [] name = "map_ops" -> {<<4999, 950000>>, <<4999, 950001>>}
      [] name = "call_overhead" -> {<<10000000>>, <<9999999>>}
      [] name = "recursion_ackermann" -> {<<2045>>, <<2044>>}

\* Exceptions the timed computation itself can end in
ComputeErrors == {"RecursionError"}

\* Elapsed times of the model; no sum of them ends in the digit 5, so
\* no rounding to four decimals is a tie.
ElapsedTimes == {12, 26}

\* What the timed part of one benchmark function does
Computations(name) ==
    [exc : {"none"}, result : ResultsOf(name), elapsed : ElapsedTimes]
    \cup [exc : ComputeErrors, result : {<<>>}, elapsed : {0}]

\* The computations of the first n benchmarks of the list
RECURSIVE ComputedBy(_)
ComputedBy(n) ==
    IF n = 0 THEN {<<>>}
    ELSE { Append(s, c) : s \in ComputedBy(n - 1),
                          c \in Computations(BENCHMARKS[n]) }

\* Optional values: None, and a value that is not None
None == [none |-> TRUE, val |-> 0]
Some(v) == [none |-> FALSE, val |-> v]

\* bench_<name>(): the timed computation, the assert, return elapsed
bench(name, c) ==
    IF c.exc # "none" THEN Raised(c.exc)
    ELSE IF ~SelfCheck(name, c.result) THEN Raised("AssertionError")
    ELSE Returned(c.elapsed)

\* f"{x:.4f}": x rounded to a whole number of 10^-4 seconds
format_4f(x) == (x + 5) \div 10

\* One printed line
Line(tag, name, status, val) ==
    [tag |-> tag, name |-> name, status |-> status, val |-> val]

Rule(c) == Line("rule", c, "", 0)

\* The summary rows of main, one per entry of results
SummaryRows(res) ==
    [ i \in DOMAIN res |->
        IF res[i][2].none
        THEN Line("row", res[i][1], "FAILED", 0)
        ELSE Line("row", res[i][1], "time", format_4f(res[i][2].val)) ]

\* The timings as the summary rows print them, added up
SummaryTotalOfRows(res) ==
    SumSeq([ i \in DOMAIN res |->
               IF res[i][2].none THEN 0
               ELSE 10 * format_4f(res[i][2].val) ])

\* total after the summary loop: the elapsed of the entries that are not
\* None, added up
SummaryTotal(res) ==
    SumSeq([ i \in DOMAIN res |->
               IF res[i][2].none THEN 0 ELSE res[i][2].val ])

\* main, before its loop: the two heading lines, results = []
RunnerStart ==
    /\ pc = "runner"
    /\ stdout' = <<Line("Python", "", "", 0),
                   Line("Running", "", "", Len(BENCHMARKS)),
                   Line("blank", "", "", 0)>>
    /\ results' = <<>>
    /\ pc' = "benchmarks"
    /\ UNCHANGED <<computed, total, stdin, nread>>
    /\ UNCHANGED <<store, args, rows, data, raised, output, stderr, outfile,
                   exit_code, bench_data, fastest>>

\* One iteration of "for name, fn in BENCHMARKS", try and except included
RunBenchmark ==
    /\ pc = "benchmarks"
    /\ Len(results) < Len(BENCHMARKS)
    /\ LET i == Len(results) + 1
           name == BENCHMARKS[i]
           r == bench(name, computed[i])
       IN  IF r.exc = "none"
           THEN /\ results' = Append(results, <<name, Some(r.val)>>)
                /\ stdout' = Append(stdout,
                       Line("BENCH", name, "time", format_4f(r.val)))
           ELSE /\ results' = Append(results, <<name, None>>)
                /\ stdout' = Append(stdout, Line("BENCH", name, "FAILED", 0))
    /\ UNCHANGED <<computed, total, stdin, nread>>
    /\ UNCHANGED <<store, args, pc, rows, data, raised, output, stderr,
                   outfile, exit_code, bench_data, fastest>>

\* main, after its loop: the summary table and the total; main returns
\* and the interpreter exits with status 0
RunnerSummary ==
    /\ pc = "benchmarks"
    /\ Len(results) = Len(BENCHMARKS)
    /\ total' = SummaryTotal(results)
    /\ stdout' = stdout
                 \o <<Line("blank", "", "", 0), Rule("="),
                      Line("heading", "", "", 0), Rule("-")>>
                 \o SummaryRows(results)
                 \o <<Rule("-"),
                      Line("TOTAL", "", "time",
                           format_4f(SummaryTotal(results))),
                      Rule("=")>>
    /\ exit_code' = 0
    /\ pc' = "done"
    /\ UNCHANGED <<computed, results, stdin, nread>>
    /\ UNCHANGED <<store, args, rows, data, raised, output, stderr, outfile,
                   bench_data, fastest>>

\* python_bench.py is started; the computation of each benchmark is given
InitBench ==
    /\ Idle
    /\ store = <<>>
    /\ args = [json |-> TRUE, output |-> FALSE]
    /\ pc = "runner"
    /\ results = <<>>
    /\ total = 0
    /\ stdin = <<>>
    /\ nread = 0
    /\ computed \in ComputedBy(Len(BENCHMARKS))

NextBench == RunnerStart \/ RunBenchmark \/ RunnerSummary

SpecBench == InitBench /\ [][NextBench]_vars

----------------------------------------------------------------------------
(* lumen-provider-mcp/tests/test_mcp_server.py: the stdio JSON-RPC server *)

\* A JSON value is a record: t is its type, s the text of a string, n the
\* value of a number, m the items of an object as a dict.  A formatted
\* string f"prefix{x}" is the string prefix with the formatted value x as
\* its one item.
JsonNull == [t |-> "null", s |-> "", n |-> 0, m |-> <<>>]
JsonStr(s) == [t |-> "str", s |-> s, n |-> 0, m |-> <<>>]
JsonNum(n) == [t |-> "num", s |-> "", n |-> n, m |-> <<>>]
JsonArr(items) == [t |-> "arr", s |-> "", n |-> 0, m |-> items]
JsonObj(items) == [t |-> "obj", s |-> "", n |-> 0, m |-> items]
Fmt(prefix, x) == [t |-> "str", s |-> prefix, n |-> 0, m |-> <<<<"0", x>>>>]

\* A line of input: text that json.loads parses to value, or rejects
JsonLine(v) == [valid |-> TRUE, value |-> v]
BadLine == [valid |-> FALSE, value |-> JsonNull]

\* json.loads(line.strip())
json_loads(line) ==
    IF line.valid THEN Returned(line.value) ELSE Raised("JSONDecodeError")

\* v.get(key, default); a value that is not a dict has no get
DictGet(v, key, default) ==
    IF v.t # "obj" THEN Raised("AttributeError")
    ELSE IF Has(v.m, key) THEN Returned(Get(v.m, key))
    ELSE Returned(default)

\* The response dicts
ResultResponse(req_id, result) ==
    << <<"jsonrpc", JsonStr("2.0")>>, <<"id", req_id>>,
       <<"result", result>> >>

ErrorResponse(req_id, code, message) ==
    << <<"jsonrpc", JsonStr("2.0")>>, <<"id", req_id>>,
       <<"error", JsonObj(<< <<"code", JsonNum(code)>>,
                             <<"message", message>> >>)>> >>

\* The except branch: the response to any exception of the try block
InternalError(e) ==
    ErrorResponse(JsonNum(1), -32603, Fmt("Internal error: ", JsonStr(e)))

\* The result of tools/list: the two tools, by name (descriptions and
\* input schemas left out)
ToolsList ==
    JsonObj(<< <<"tools",
        JsonArr(<< <<"0", JsonObj(<< <<"name", JsonStr("echo")>> >>)>>,
                   <<"1", JsonObj(<< <<"name", JsonStr("greet")>> >>)>> >>)>> >>)

\* The tools/call branch for a request dict req with id req_id
ToolsCall(req, req_id) ==
    LET params == DictGet(req, "params", JsonObj(<<>>)).val
        tool_name == DictGet(params, "name", JsonStr(""))
        arguments == DictGet(params, "arguments", JsonObj(<<>>))
        name == DictGet(arguments.val, "name", JsonStr("stranger"))
    IN  IF tool_name.exc # "none" THEN InternalError(tool_name.exc)
        ELSE IF tool_name.val = JsonStr("echo")
        THEN ResultResponse(req_id,
                 JsonObj(<< <<"echoed", arguments.val>> >>))
        ELSE IF tool_name.val = JsonStr("greet")
        THEN IF name.exc # "none" THEN InternalError(name.exc)
             ELSE ResultResponse(req_id,
                      JsonObj(<< <<"greeting", Fmt("Hello, ", name.val)>> >>))
        ELSE ErrorResponse(req_id, -32601,
                 Fmt("Unknown tool: ", tool_name.val))

\* The body of the loop: the one response printed for a line
Respond(line) ==
    LET parsed == json_loads(line)
        req == parsed.val
        method == DictGet(req, "method", JsonStr(""))
        req_id == DictGet(req, "id", JsonNum(1)).val
    IN  IF parsed.exc # "none" THEN InternalError(parsed.exc)
        ELSE IF method.exc # "none" THEN InternalError(method.exc)
        ELSE IF method.val = JsonStr("tools/list")
        THEN ResultResponse(req_id, ToolsList)
        ELSE IF method.val = JsonStr("tools/call")
        THEN ToolsCall(req, req_id)
        ELSE ErrorResponse(req_id, -32601,
                 Fmt("Method not found: ", method.val))

\* A request dict: method, id, params when given (JsonNull: the key is
\* left out)
Request(method, id, params) ==
    JsonLine(JsonObj(
        (IF method = JsonNull THEN <<>> ELSE << <<"method", method>> >>)
        \o (IF id = JsonNull THEN <<>> ELSE << <<"id", id>> >>)
        \o (IF params = JsonNull THEN <<>> ELSE << <<"params", params>> >>)))

\* params of a tools/call
CallParams(tool, arguments) ==
    JsonObj(<< <<"name", JsonStr(tool)>> >>
            \o (IF arguments = JsonNull THEN <<>>
                ELSE << <<"arguments", arguments>> >>))

\* The lines the server is run on
RequestLines ==
    { BadLine,
      JsonLine(JsonArr(<< <<"0", JsonNum(1)>> >>)),
      JsonLine(JsonObj(<<>>)),
      Request(JsonStr("tools/list"), JsonNum(7), JsonNull),
      Request(JsonStr("tools/list"), JsonNull, JsonNull),
      Request(JsonStr("ping"), JsonNum(11), JsonNull),
      Request(JsonStr("tools/call"), JsonNum(8),
              CallParams("echo", JsonObj(<< <<"x", JsonStr("y")>> >>))),
      Request(JsonStr("tools/call"), JsonNum(9),
              CallParams("greet", JsonObj(<< <<"name", JsonStr("Ada")>> >>))),
      Request(JsonStr("tools/call"), JsonNull, CallParams("greet", JsonNull)),
      Request(JsonStr("tools/call"), JsonNum(10),
              CallParams("nope", JsonNull)),
      Request(JsonStr("tools/call"), JsonNum(12),
              JsonArr(<< <<"0", JsonStr("echo")>> >>)),
      Request(JsonStr("tools/call"), JsonNum(13),
              CallParams("greet", JsonStr("Ada"))) }

\* The inputs: at most MaxLines lines
RECURSIVE Inputs(_)
Inputs(n) ==
    IF n = 0 THEN {<<>>}
    ELSE Inputs(n - 1)
         \cup { Append(s, l) : s \in { t \in Inputs(n - 1) : Len(t) = n - 1 },
                               l \in RequestLines }

\* One iteration of "for line in sys.stdin": the next line is taken,
\* answered, and the answer flushed
ServeLine ==
    /\ pc = "serving"
    /\ nread < Len(stdin)
    /\ nread' = nread + 1
    /\ stdout' = Append(stdout, Respond(stdin[nread + 1]))
    /\ UNCHANGED <<computed, results, total, stdin>>
    /\ UNCHANGED <<store, args, pc, rows, data, raised, output, stderr,
                   outfile, exit_code, bench_data, fastest>>

\* End of input: the loop ends, main returns
ServeEnd ==
    /\ pc = "serving"
    /\ nread = Len(stdin)
    /\ pc' = "eof"
    /\ exit_code' = 0
    /\ UNCHANGED other_vars
    /\ UNCHANGED <<store, args, rows, data, raised, output, stdout, stderr,
                   outfile, bench_data, fastest>>

InitMcp ==
    /\ Idle
    /\ store = <<>>
    /\ args = [json |-> TRUE, output |-> FALSE]
    /\ pc = "serving"
    /\ computed = <<>>
    /\ results = <<>>
    /\ total = 0
    /\ nread = 0
    /\ stdin \in Inputs(MaxLines)

NextMcp == ServeLine \/ ServeEnd

SpecMcp == InitMcp /\ [][NextMcp]_vars

----------------------------------------------------------------------------
(* Claims *)

\* main is past data = aggregate(rows)
Aggregated ==
    \/ pc \in {"aggregated", "rendered"}
    \/ pc = "exit" /\ exit_code = 0

\* The positions of the store's records of one (benchmark, language) key
\* whose time_ms is not the ERROR marker
NonErrorRecords(b, l) ==
    { i \in DOMAIN store :
        /\ store[i].benchmark = b
        /\ store[i].language = l
        /\ store[i].time_ms # "ERROR" }

EntryPresent(d, b, l) == Has(d, b) /\ Has(Get(d, b), l)

\* C1: after load_csv and aggregate, a (benchmark, language) entry is in
\* the result if and only if the store has a record of that key whose
\* time_ms is not ERROR; its runs is the number of such records (so it is
\* at least 1), and its min and max are timings of such records.
C1_RunsCountsNonErrorRows ==
    Aggregated =>
        \A b \in Benchmarks, l \in Languages :
            LET recs == NonErrorRecords(b, l)
            IN  /\ EntryPresent(data, b, l) <=> recs # {}
                /\ EntryPresent(data, b, l) =>
                     LET st == Get(Get(data, b), l)
                         timings == { FloatTable[store[i].time_ms] : i \in recs }
                     IN  /\ st.runs = Cardinality(recs)
                         /\ st.runs >= 1
                         /\ st.min \in timings
                         /\ st.max \in timings

\* A store with an ERROR record and a timed record of the same key has been
\* aggregated: the entry counts one run.
C1_Witness ==
    /\ pc = "aggregated"
    /\ \E i, j \in DOMAIN store :
         /\ store[i].time_ms = "ERROR"
         /\ store[j].time_ms # "ERROR"
         /\ store[i].benchmark = store[j].benchmark
         /\ store[i].language = store[j].language
         /\ Get(Get(data, store[j].benchmark), store[j].language).runs = 1

\* The samples of one key among the rows aggregate was applied to
SamplesOf(b, l) ==
    LET Match(r) == r.benchmark = b /\ r.language = l
        sel == SelectSeq(rows, Match)
    IN  [ i \in DOMAIN sel |-> sel[i].time_ms ]

\* The k-th smallest of the samples s: the value with fewer than k samples
\* below it and at least k samples not above it.
KthSmallest(s, k) ==
    CHOOSE v \in Range(s) :
        /\ Cardinality({ i \in DOMAIN s : s[i] < v }) < k
        /\ k <= Cardinality({ i \in DOMAIN s : s[i] <= v })

\* C2: every entry aggregate returns has min <= median <= max, min the
\* smallest and max the largest sample of its group, and median the middle
\* sample (the average of the two middle samples for an even count).
C2_MinMedianMax ==
    pc = "aggregated" =>
        \A b \in Benchmarks, l \in Languages :
            EntryPresent(data, b, l) =>
                LET st == Get(Get(data, b), l)
                    s == SamplesOf(b, l)
                    n == Len(s)
                IN  /\ st.min <= st.median
                    /\ st.median <= st.max
                    /\ st.min \in Range(s)
                    /\ st.max \in Range(s)
                    /\ \A i \in DOMAIN s : st.min <= s[i] /\ s[i] <= st.max
                    /\ IF n % 2 = 1
                       THEN st.median = KthSmallest(s, (n + 1) \div 2)
                       ELSE 2 * st.median =
                              KthSmallest(s, n \div 2)
                                + KthSmallest(s, n \div 2 + 1)

\* A group of three samples that came out of order has been aggregated.
C2_Witness ==
    /\ pc = "aggregated"
    /\ \E b \in Benchmarks, l \in Languages :
         /\ EntryPresent(data, b, l)
         /\ SamplesOf(b, l) = <<300, 100, 200>>
         /\ Get(Get(data, b), l).median = 200
         /\ Get(Get(data, b), l).min = 100
         /\ Get(Get(data, b), l).max = 300

\* The keys of a dict are in strictly ascending order
KeysAscending(d) ==
    \A i, j \in DOMAIN d : i < j => StrLess(d[i][1], d[j][1])

\* C3: aggregate depends only on the multiset of the rows: aggregating the
\* same rows in another order gives the same mapping, statistics and key
\* order, hence the same structured output; and the benchmark keys and
\* each benchmark's language keys are in sorted order.
C3_OrderIndependent ==
    /\ [][(pc = "aggregated" /\ pc' = "aggregated")
            => (data' = data /\ output' = output)]_vars
    /\ [](pc = "aggregated" =>
            /\ KeysAscending(data)
            /\ \A i \in DOMAIN data : KeysAscending(data[i][2]))

\* Rows that came with the later benchmark and the later language first
\* have been aggregated into two benchmarks, one with two languages.
C3_Witness ==
    /\ pc = "aggregated"
    /\ Len(rows) = 3
    /\ StrLess(rows[3].benchmark, rows[1].benchmark)
    /\ rows[1].benchmark = rows[2].benchmark
    /\ StrLess(rows[2].language, rows[1].language)
    /\ Len(data) = 2

\* The position of the language find_fastest returned
FastestAt == CHOOSE i \in DOMAIN bench_data : bench_data[i][1] = fastest

\* The positions of the languages whose median is the lowest of the group
LowestAt ==
    { i \in DOMAIN bench_data :
        \A j \in DOMAIN bench_data :
            bench_data[i][2].median <= bench_data[j][2].median }

\* C4 as stated: whatever the insertion order, find_fastest returns a
\* language with the lowest median, and of several with that median the one
\* whose name sorts first.
C4_TieSortsFirst ==
    pc = "found" =>
        /\ FastestAt \in LowestAt
        /\ \A i \in LowestAt \ {FastestAt} :
             StrLess(fastest, bench_data[i][1])

\* C4 as amended: find_fastest returns a language with the lowest median,
\* and of several with that median the one inserted first; that is the one
\* whose name sorts first when the languages were inserted in sorted order.
C4_TieFirstInserted ==
    pc = "found" =>
        /\ FastestAt \in LowestAt
        /\ \A i \in LowestAt : FastestAt <= i
        /\ KeysAscending(bench_data) =>
             \A i \in LowestAt \ {FastestAt} :
                 StrLess(fastest, bench_data[i][1])

\* find_fastest has chosen between three languages on the same median that
\* were not inserted in sorted order.
C4_Witness ==
    /\ pc = "found"
    /\ Len(bench_data) = 3
    /\ LowestAt = {1, 2, 3}
    /\ ~KeysAscending(bench_data)
    /\ fastest = bench_data[1][1]
    /\ fastest # "c"

\* C5 as stated: aggregate called with no row fails with an
\* EmptyInputError.
C5_EmptyInputRaises ==
    (pc = "aggregated" /\ rows = <<>>) => raised = "EmptyInputError"

\* C5 as amended: aggregate raises nothing; called with no row it returns
\* the empty mapping, and with any row a mapping that is not empty.
C5_EmptyInputReturnsEmpty ==
    pc = "aggregated" =>
        /\ raised = "none"
        /\ rows = <<>> <=> data = <<>>

\* aggregate has been called with no row.
C5_Witness ==
    /\ pc = "aggregated"
    /\ rows = <<>>
    /\ data = <<>>

\* A record main can use: its time_ms is a decimal number
Usable(rec) == rec.time_ms \in DOMAIN FloatTable

\* The rows of the store's usable records, in file order
UsableRows ==
    LET recs == SelectSeq(store, Usable)
    IN  [ i \in DOMAIN recs |->
            [recs[i] EXCEPT !.time_ms = FloatTable[recs[i].time_ms]] ]

ReportWritten == stdout # <<>> \/ outfile # <<>>

\* C6: the report command ends in one of two ways: on a store with no
\* usable row it writes a diagnostic to standard error, writes no report
\* and exits non-zero; on every other store it writes the report and exits
\* with zero.
C6_TwoEndings ==
    pc = "exit" =>
        IF UsableRows = <<>>
        THEN stderr # <<>> /\ ~ReportWritten /\ exit_code # 0
        ELSE ReportWritten /\ exit_code = 0

\* C7: a record that cannot be parsed is dropped and the load goes on:
\* load_csv raises nothing and returns every usable row of the store.
C7_MalformedRowDropped ==
    pc # "main" => (raised = "none" /\ rows = UsableRows)

\* The report generate_markdown returned
Report == output.body

\* The column of a language in the tables
ColumnOf(l) == CHOOSE k \in DOMAIN Report.all_langs : Report.all_langs[k] = l

\* The row of a benchmark in the relative-performance table
RelativeRowOf(b) ==
    Report.relative[CHOOSE i \in DOMAIN Report.relative :
                        Report.relative[i].bench = b]

\* C8: in the relative-performance table, the cell of a language present in
\* a benchmark's group is the ratio median[language] / median["c"] if and
\* only if "c" is in the group with a strictly positive median; otherwise
\* it is the language's own median with the unit, and no division is made.
C8_RatioOnlyOverPositiveBaseline ==
    pc = "generated" =>
        \A b \in KeySet(data) :
            LET langs == Get(data, b)
                base_ok == Has(langs, "c") /\ Get(langs, "c").median > 0
            IN  \A l \in KeySet(langs) :
                    LET cell == RelativeRowOf(b).cells[ColumnOf(l)]
                    IN  /\ cell.kind = "ratio" <=> base_ok
                        /\ base_ok =>
                             /\ cell.val.d > 0
                             /\ cell.val.n * Get(langs, "c").median
                                  = Get(langs, l).median * cell.val.d
                        /\ ~base_ok =>
                             /\ cell.kind = "ms"
                             /\ cell.val = Get(langs, l).median

\* A report has been generated in which fib has "c" at median 0 and shows
\* lumen's own median, and sort has "c" at a positive median and shows the
\* ratios 1 and 2.
C8_Witness ==
    /\ pc = "generated"
    /\ Has(data, "fib")
    /\ Has(data, "sort")
    /\ {"c", "lumen"} \subseteq KeySet(Get(data, "fib"))
    /\ {"c", "lumen"} \subseteq KeySet(Get(data, "sort"))
    /\ Get(Get(data, "fib"), "c").median = 0
    /\ RelativeRowOf("fib").cells[ColumnOf("lumen")]
         = Cell("ms", Get(Get(data, "fib"), "lumen").median, FALSE)
    /\ Get(Get(data, "sort"), "c").median = 200
    /\ Get(Get(data, "sort"), "lumen").median = 400
    /\ RelativeRowOf("sort").cells[ColumnOf("c")]
         = Cell("ratio", [n |-> 1, d |-> 1], FALSE)
    /\ RelativeRowOf("sort").cells[ColumnOf("lumen")]
         = Cell("ratio", [n |-> 2, d |-> 1], FALSE)

\* The entries of the Lumen analysis for one benchmark
RanksOf(b) == { i \in DOMAIN Report.lumen : Report.lumen[i].bench = b }

\* The languages of a group whose median is below / not above m
Below(langs, m) == { i \in DOMAIN langs : langs[i][2].median < m }
NotAbove(langs, m) == { i \in DOMAIN langs : langs[i][2].median <= m }

\* C9: a benchmark has a subject rank if and only if "lumen" is in its
\* group; then total is the number of languages of the group and rank is
\* lumen's position in the ascending order of the medians: 1 <= rank <=
\* total, and every language with a smaller median is ranked before it.
C9_SubjectRank ==
    pc = "generated" =>
        \A b \in Benchmarks :
            IF Has(data, b) /\ Has(Get(data, b), "lumen")
            THEN /\ Cardinality(RanksOf(b)) = 1
                 /\ LET e == Report.lumen[CHOOSE i \in RanksOf(b) : TRUE]
                        langs == Get(data, b)
                        m == Get(langs, "lumen").median
                    IN  /\ e.total = Len(langs)
                        /\ 1 <= e.rank
                        /\ e.rank <= e.total
                        /\ Cardinality(Below(langs, m)) < e.rank
                        /\ e.rank <= Cardinality(NotAbove(langs, m))
            ELSE RanksOf(b) = {}

\* A report has been generated from a benchmark where lumen is second of
\* three and a benchmark that has no lumen.
C9_Witness ==
    /\ pc = "generated"
    /\ Len(data) = 2
    /\ \E i \in DOMAIN Report.lumen :
         Report.lumen[i].rank = 2 /\ Report.lumen[i].total = 3
    /\ \E b \in KeySet(data) : ~Has(Get(data, b), "lumen")
    /\ Len(Report.lumen) = 1

\* The lowest median of a group
LowestMedian(langs) ==
    CHOOSE m \in { langs[i][2].median : i \in DOMAIN langs } :
        \A i \in DOMAIN langs : m <= langs[i][2].median

\* ratio_to_fastest of a benchmark that has lumen, as a pair <<numerator,
\* denominator>> that is not reduced
RatioToFastest(b) ==
    LET langs == Get(data, b)
        f == LowestMedian(langs)
    IN  IF f > 0 THEN <<Get(langs, "lumen").median, f>> ELSE <<0, 1>>

\* C10: for every benchmark that has the subject, ratio_to_fastest is
\* subject_median / fastest_median when the fastest median is positive and
\* 0 otherwise; the average slowdown is the mean of these ratios over
\* exactly the benchmarks that have the subject.
C10_RatioAndAverage ==
    pc = "generated" =>
        LET with == { b \in KeySet(data) : Has(Get(data, b), "lumen") }
            by == [ b \in with |-> RatioToFastest(b) ]
        IN  /\ { Report.lumen[i].bench : i \in DOMAIN Report.lumen } = with
            /\ Len(Report.lumen) = Cardinality(with)
            /\ \A i \in DOMAIN Report.lumen :
                 LET e == Report.lumen[i]
                 IN  /\ e.ratio.d > 0
                     /\ e.ratio.n * by[e.bench][2] = by[e.bench][1] * e.ratio.d
            /\ with # {} =>
                 /\ Len(Report.average) = 1
                 /\ Report.average[1].d > 0
                 /\ IF Cardinality(with) = 1
                    THEN LET r == by[CHOOSE b \in with : TRUE]
                         IN  Report.average[1].n * r[2]
                               = r[1] * Report.average[1].d
                    ELSE LET x == by["fib"]
                             y == by["sort"]
                         IN  Report.average[1].n * (2 * x[2] * y[2])
                               = (x[1] * y[2] + y[1] * x[2])
                                   * Report.average[1].d

\* A report has been generated with ratios of 2.0 and 4.0, which average
\* 3.0.
C10_Witness ==
    /\ pc = "generated"
    /\ Len(Report.lumen) = 2
    /\ Report.lumen[1].ratio = [n |-> 2, d |-> 1]
    /\ Report.lumen[2].ratio = [n |-> 4, d |-> 1]
    /\ Report.average = <<[n |-> 3, d |-> 1]>>

\* No group of the aggregated data has the subject
NoSubject == \A i \in DOMAIN data : ~Has(data[i][2], "lumen")

\* The summary, relative-performance and detailed sections hold a row (a
\* table) for every benchmark, with a cell for every language of the
\* report that shows a value exactly for the languages of the group, and a
\* detailed line for every language of the group.
SectionsInFull ==
    /\ output.kind = "markdown"
    /\ Range(Report.all_langs) = UNION { KeySet(data[i][2]) : i \in DOMAIN data }
    /\ Len(Report.summary) = Len(data)
    /\ Len(Report.relative) = Len(data)
    /\ Len(Report.detailed) = Len(data)
    /\ \A i \in DOMAIN data :
         /\ Report.summary[i].bench = data[i][1]
         /\ Report.relative[i].bench = data[i][1]
         /\ Report.detailed[i].bench = data[i][1]
         /\ DOMAIN Report.summary[i].cells = DOMAIN Report.all_langs
         /\ DOMAIN Report.relative[i].cells = DOMAIN Report.all_langs
         /\ \A k \in DOMAIN Report.all_langs :
              LET in_group == Has(data[i][2], Report.all_langs[k])
              IN  /\ Report.summary[i].cells[k].kind # "dash" <=> in_group
                  /\ Report.relative[i].cells[k].kind # "dash" <=> in_group
         /\ { Report.detailed[i].lines[k].lang :
                k \in DOMAIN Report.detailed[i].lines } = KeySet(data[i][2])
         /\ \A k \in DOMAIN Report.detailed[i].lines :
              Report.detailed[i].lines[k].stats
                = Get(data[i][2], Report.detailed[i].lines[k].lang)

\* C11 as stated: when the subject is in no benchmark group, the average
\* slowdown fails with an InsufficientDataError, and the summary,
\* relative-performance and detailed sections are still rendered in full.
C11_InsufficientDataRaised ==
    (pc = "generated" /\ NoSubject) =>
        /\ raised = "InsufficientDataError"
        /\ SectionsInFull

\* C11 as amended: when the subject is in no benchmark group, nothing is
\* raised and no average slowdown is computed: the subject section has no
\* table and no average line, and the summary, relative-performance and
\* detailed sections are rendered in full.
C11_NoSubjectNoAverage ==
    (pc = "generated" /\ NoSubject) =>
        /\ raised = "none"
        /\ Report.lumen = <<>>
        /\ Report.average = <<>>
        /\ SectionsInFull

\* A report of two benchmarks, one of them with both c and python and none
\* with lumen, has been generated.
C11_Witness ==
    /\ pc = "generated"
    /\ NoSubject
    /\ Len(data) = 2
    /\ Report.all_langs = <<"c", "python">>
    /\ Len(Report.detailed[1].lines) = 2
    /\ Report.average = <<>>

\* The row of a benchmark in the summary table
SummaryRowOf(b) ==
    Report.summary[CHOOSE i \in DOMAIN Report.summary :
                       Report.summary[i].bench = b]

\* The languages of a group whose median is the lowest of the group
LowestLangs(langs) ==
    { langs[i][1] : i \in { j \in DOMAIN langs :
                              langs[j][2].median = LowestMedian(langs) } }

\* C14: for every benchmark that has the subject, the fastest language of
\* the subject section is the one the summary table names and marks: of
\* the languages on the lowest median the one whose name sorts first; and
\* the subject's rank is 1 if and only if that language is the subject.
C14_FastestAgrees ==
    pc = "generated" =>
        \A i \in DOMAIN Report.lumen :
            LET e == Report.lumen[i]
                row == SummaryRowOf(e.bench)
                lowest == LowestLangs(Get(data, e.bench))
            IN  /\ e.fastest = row.fastest
                /\ \A k \in DOMAIN Report.all_langs :
                     row.cells[k].bold <=> Report.all_langs[k] = e.fastest
                /\ e.fastest \in lowest
                /\ \A l \in lowest \ {e.fastest} : StrLess(e.fastest, l)
                /\ e.rank = 1 <=> e.fastest = "lumen"

\* A report has been generated where lumen ties with python on the lowest
\* median of fib and is its fastest, and ties with c on the lowest median
\* of sort and is second to it.
C14_Witness ==
    /\ pc = "generated"
    /\ Len(Report.lumen) = 2
    /\ LowestLangs(Get(data, "fib")) = {"lumen", "python"}
    /\ Report.lumen[1].fastest = "lumen"
    /\ Report.lumen[1].rank = 1
    /\ LowestLangs(Get(data, "sort")) = {"c", "lumen"}
    /\ Report.lumen[2].fastest = "c"
    /\ Report.lumen[2].rank = 2
    /\ SummaryRowOf("sort").fastest = "c"

\* The benchmarks of the list that main has been through
Attempted == 1..Len(results)

\* The timed computation of benchmark i ended and its assert rejected
\* the value
SelfCheckFailed(i) ==
    /\ computed[i].exc = "none"
    /\ ~SelfCheck(BENCHMARKS[i], computed[i].result)

\* Benchmark i returned its elapsed time
Succeeded(i) ==
    /\ computed[i].exc = "none"
    /\ SelfCheck(BENCHMARKS[i], computed[i].result)

\* The lines of stdout that report a timing for the benchmark name
TimingLines(name) ==
    { k \in DOMAIN stdout :
        /\ stdout[k].tag \in {"BENCH", "row"}
        /\ stdout[k].name = name
        /\ stdout[k].status = "time" }

\* C12: when the self-check of a benchmark fails, the program terminates
\* abnormally: no later benchmark is attempted, the exit status is not 0,
\* and no timing is reported for that benchmark.
C12_SelfCheckFailureAborts ==
    \A i \in Attempted :
        SelfCheckFailed(i) =>
            /\ Len(results) = i
            /\ pc = "done" => exit_code # 0
            /\ TimingLines(BENCHMARKS[i]) = {}

\* The lines of stdout that start with BENCH
BenchLines == SelectSeq(stdout, LAMBDA l : l.tag = "BENCH")

\* The elapsed times of the benchmarks that returned, added up
SucceededTotal ==
    SumSeq([ i \in DOMAIN BENCHMARKS |->
               IF Succeeded(i) THEN computed[i].elapsed ELSE 0 ])

\* C13: the runner goes through BENCHMARKS in order and once each,
\* whatever the earlier benchmarks did; stdout has one BENCH line per
\* benchmark gone through, in that order; the line carries a timing if
\* the benchmark returned and FAILED if it raised; when main is done every
\* benchmark has its line and total is the sum over those that returned.
C13_OneBenchLineEach ==
    pc \in {"benchmarks", "done"} =>
        /\ Len(BenchLines) = Len(results)
        /\ Len(results) <= Len(BENCHMARKS)
        /\ \A i \in Attempted :
             /\ results[i][1] = BENCHMARKS[i]
             /\ BenchLines[i].name = BENCHMARKS[i]
             /\ BenchLines[i].status = "time" <=> Succeeded(i)
             /\ BenchLines[i].status = "FAILED" <=> ~Succeeded(i)
             /\ Succeeded(i) =>
                  BenchLines[i].val = format_4f(computed[i].elapsed)
        /\ pc = "done" =>
             /\ Len(results) = Len(BENCHMARKS)
             /\ total = SucceededTotal
             /\ stdout[Len(stdout) - 1] =
                  Line("TOTAL", "", "time", format_4f(SucceededTotal))

\* main is done; the first benchmark failed its self-check, the second
\* raised on its own, and two later ones returned 12 and 26.
C13_Witness ==
    /\ pc = "done"
    /\ Len(BENCHMARKS) >= 4
    /\ SelfCheckFailed(1)
    /\ computed[2].exc = "RecursionError"
    /\ Succeeded(3) /\ computed[3].elapsed = 12
    /\ Succeeded(4) /\ computed[4].elapsed = 26
    /\ total = 38

\* The line parses to a request object
IsRequestObject(line) == line.valid /\ line.value.t = "obj"

\* The id a request object carries, 1 when it has none
RequestId(line) ==
    IF Has(line.value.m, "id") THEN Get(line.value.m, "id") ELSE JsonNum(1)

\* One response per line taken, each with a result or an error and not
\* both, and nothing left unanswered at the end of the input
AnsweredInStep ==
    /\ Len(stdout) = nread
    /\ pc = "eof" => nread = Len(stdin)
    /\ \A i \in DOMAIN stdout :
         Has(stdout[i], "result") # Has(stdout[i], "error")

\* C15: the server writes one response for every line before it takes the
\* next one, for every kind of line; a response has a result or an error
\* and never both; the response to a line that parses to a request object
\* carries the id of that request, 1 when the request has none; a bad line
\* does not keep later lines from being answered.
C15_OneResponsePerLine ==
    pc \in {"serving", "eof"} =>
        /\ AnsweredInStep
        /\ \A i \in DOMAIN stdout :
             IsRequestObject(stdin[i]) =>
                 Get(stdout[i], "id") = RequestId(stdin[i])

====
